---- MODULE Spec2Model ----
(***************************************************************************)
(* A state-machine model of the neural-network trainer of the notebook     *)
(* (init_params, model_forward_propagation, compute_cost,                  *)
(* model_backward_propagation, update_parameters, epoch_train, train_nn,   *)
(* predict).                                                               *)
(*                                                                         *)
(* What is kept exact: control flow, the shape of every numpy array, the   *)
(* Python object identity of the parameter arrays (numpy's -= updates an   *)
(* array in place), the activation dispatch, the exceptions raised, the    *)
(* order of the steps.  What is drawn from small sets: the floating-point  *)
(* numbers the code branches on, namely the cost of an epoch (compared     *)
(* with best_cost) and the output probabilities (compared with 0.5).       *)
(* Every other array carries, instead of its numbers, the term that        *)
(* computed it; a parameter array is named in a term by its reference and  *)
(* the number of in-place updates applied to it so far.                    *)
(***************************************************************************)
EXTENDS Integers, Sequences, FiniteSets, TLC

\* ---------------------------------------------------------------- bounds
\* unit counts of a LayerSpec range over MinUnits..MaxUnits
MaxUnits == 2
\* a LayerSpec has at most MaxLen entries
MaxLen == 3
\* batch sizes range over 1..MaxBatch
MaxBatch == 2
\* num_iteration ranges over 0..MaxIter
MaxIter == 2
\* costs are counted in units of 1/CostUnit and range over 1..MaxCost units
CostUnit == 3
MaxCost == 4
\* probabilities are counted in units of 1/ProbUnit and range over 0..ProbUnit
ProbUnit == 2

MinUnits == 0 - 1

VARIABLES
    pc,                   \* position in the program
    err,                  \* the exception that ended the run, or NoErr
    heap,                 \* the numpy arrays that are mutated in place, by reference
    layer_units, X, y, activation_functions, num_iteration, verbose, lambda_reg,
    weights, biases,      \* train_nn's lists of references
    costs, best_cost, best_weights, best_biases, best_iteration, i,
    A, caches, cost, cost_call,       \* epoch_train's locals
    gradients_A_prev, gradients_W, gradients_b,
    best_parameters,      \* what train_nn returned
    probs, p,             \* predict's locals
    recorded,             \* history: the parameter values when the best was recorded
    epoch_costs           \* history: the cost epoch_train returned, per epoch run

inputs == <<layer_units, X, y, activation_functions, num_iteration, verbose, lambda_reg>>
train_locals == <<weights, biases, costs, best_cost, best_weights, best_biases, best_iteration, i>>
epoch_locals == <<A, caches, cost, cost_call, gradients_A_prev, gradients_W, gradients_b>>
predict_locals == <<probs, p>>
history == <<recorded, epoch_costs>>
vars == <<pc, err, heap, inputs, train_locals, epoch_locals, best_parameters, predict_locals, history>>

\* ------------------------------------------------------- Python and numpy
\* an optional value: None, or Some(v)
None == <<>>
Some(v) == <<v>>
The(o) == o[1]
\* an exception: its type and the function whose statement raised it
NoErr == <<"none", "none">>
Raise(type, where) == <<type, where>>
IsErr(e) == e # NoErr

\* A shape is a tuple of dimensions.
Size(shape) == IF Len(shape) = 1 THEN shape[1] ELSE shape[1] * shape[2]

\* np.dot of two 2-d arrays: the inner dimensions must agree
DotOk(s, t) == s[2] = t[1]
DotShape(s, t) == <<s[1], t[2]>>

\* the shape of s.T
TShape(s) == <<s[2], s[1]>>

\* numpy broadcasting of an elementwise operation on two 2-d shapes
BcDim(a, b) == IF a = b THEN a ELSE IF a = 1 THEN b ELSE IF b = 1 THEN a ELSE 0 - 1
BcOk(s, t) == \A k \in 1..2 : s[k] = t[k] \/ s[k] = 1 \/ t[k] = 1
BcShape(s, t) == <<BcDim(s[1], t[1]), BcDim(s[2], t[2])>>

\* ------------------------------------------------------------ init_params
\* np.random.randn(m, n) / np.sqrt(n): numpy refuses a negative dimension; a
\* zero dimension gives an empty array.
init_random_weights(m, n) ==
    IF m < 0 \/ n < 0
    THEN [err |-> Raise("ValueError", "init_random_weights")]
    ELSE [err |-> NoErr, shape |-> <<m, n>>, val |-> <<"randn">>, ver |-> 0]

\* a bias that starts at one instead of zero
init_ones(m) ==
    IF m < 0
    THEN [err |-> Raise("ValueError", "init_zeros")]
    ELSE [err |-> NoErr, shape |-> <<m, 1>>, val |-> <<"ones">>, ver |-> 0]

\* np.zeros(shape=(m, 1)).  ver counts the in-place updates of an array.
init_zeros(m) ==
    IF m < 0
    THEN [err |-> Raise("ValueError", "init_zeros")]
    ELSE [err |-> NoErr, shape |-> <<m, 1>>, val |-> <<"zeros">>, ver |-> 0]

\* the loop of init_params from layer l on, given the lists built so far
RECURSIVE init_params_from(_, _, _, _)
init_params_from(units, l, ws, bs) ==
    IF l > Len(units) - 1
    THEN [err |-> NoErr, weights |-> ws, biases |-> bs]
    ELSE LET m == units[l + 1]
             n == units[l]
             W == init_random_weights(m, n)
             b == init_zeros(m)
         IN  IF IsErr(W.err) THEN [err |-> W.err, weights |-> ws, biases |-> bs]
             ELSE IF IsErr(b.err) THEN [err |-> b.err, weights |-> ws, biases |-> bs]
             ELSE IF W.shape # <<m, n>> \/ b.shape # <<m, 1>>
             THEN [err |-> Raise("AssertionError", "init_params"), weights |-> ws, biases |-> bs]
             ELSE init_params_from(units, l + 1, Append(ws, W), Append(bs, b))

\* init_params(layer_units): the arrays of the L = len(layer_units) - 1 layers
init_params(units) == init_params_from(units, 1, <<>>, <<>>)

\* ---------------------------------------------------- forward propagation
\* the value of the array a reference names: its shape, and the term naming
\* its content (the reference, and how many updates it has had)
Deref(h, r) == [shape |-> h[r].shape, val |-> <<"ref", r, h[r].ver>>]

ActivationNames == {"sigmoid", "relu", "tanh"}

\* linear_forward(A, W, b): Z = np.dot(W, A) + b and the assertion on Z
linear_forward(Av, W, b) ==
    IF ~DotOk(W.shape, Av.shape) THEN [err |-> Raise("ValueError", "linear_forward")]
    ELSE IF ~BcOk(DotShape(W.shape, Av.shape), b.shape)
    THEN [err |-> Raise("ValueError", "linear_forward")]
    ELSE LET Z == [shape |-> BcShape(DotShape(W.shape, Av.shape), b.shape),
                   val |-> <<"add", <<"dot", W.val, Av.val>>, b.val>>]
         IN  IF Z.shape # <<W.shape[1], Av.shape[2]>>
             THEN [err |-> Raise("AssertionError", "linear_forward")]
             ELSE [err |-> NoErr, Z |-> Z]

\* activation_function(Z, activation): any other name returns Z itself
activation_function(Z, activation) ==
    IF activation = "sigmoid" THEN [shape |-> Z.shape, val |-> <<"sigmoid", Z.val>>]
    ELSE IF activation = "relu" THEN [shape |-> Z.shape, val |-> <<"relu", Z.val>>]
    ELSE IF activation = "tanh" THEN [shape |-> Z.shape, val |-> <<"tanh", Z.val>>]
    ELSE Z

\* a forward step handing on Z, the activation not applied
forward_propagation_preactivation(A_prev, W, b, activation) ==
    LET lin == linear_forward(A_prev, W, b)
    IN  IF IsErr(lin.err) THEN [err |-> lin.err]
        ELSE [err |-> NoErr, A |-> lin.Z, Z |-> lin.Z]

\* forward_propagation(A_prev, W, b, activation)
forward_propagation(A_prev, W, b, activation) ==
    LET lin == linear_forward(A_prev, W, b)
    IN  IF IsErr(lin.err) THEN [err |-> lin.err]
        ELSE [err |-> NoErr, A |-> activation_function(lin.Z, activation), Z |-> lin.Z]

EmptyCaches == [A_prev |-> <<>>, W |-> <<>>, b |-> <<>>, Z |-> <<>>]

\* the loop of model_forward_propagation from index k (1-based) on: A_prev is
\* a copy of A, the caches keep the W and b objects themselves
RECURSIVE forward_layers(_, _, _, _, _, _, _)
forward_layers(h, ws, bs, activations, k, Av, cs) ==
    IF k > Len(ws) THEN [err |-> NoErr, A |-> Av, caches |-> cs, heap |-> h]
    ELSE LET A_prev == Av
             activation == IF k # Len(ws) THEN activations.hidden ELSE activations.output
             r == forward_propagation(A_prev, Deref(h, ws[k]), Deref(h, bs[k]), activation)
         IN  IF IsErr(r.err) THEN [err |-> r.err, A |-> Av, caches |-> cs, heap |-> h]
             ELSE forward_layers(h, ws, bs, activations, k + 1, r.A,
                                 [A_prev |-> Append(cs.A_prev, A_prev),
                                  W |-> Append(cs.W, ws[k]),
                                  b |-> Append(cs.b, bs[k]),
                                  Z |-> Append(cs.Z, r.Z)])

\* model_forward_propagation as a version working in place would be: the
\* input array is overwritten by the first activation instead of copied
model_forward_propagation_inplace(h, Xr, ws, bs, activations) ==
    LET r == forward_layers(h, ws, bs, activations, 1, Deref(h, Xr), EmptyCaches)
    IN  [r EXCEPT !.heap = [h EXCEPT ![Xr] = [shape |-> h[Xr].shape,
                                                val |-> <<"overwritten", h[Xr].val>>,
                                                ver |-> h[Xr].ver + 1]]]

\* model_forward_propagation(X, weights, biases, activation_functions) on the
\* heap h: the output A (X itself when there is no layer), the caches, and
\* the heap as the call leaves it.  verbose only prints here.
model_forward_propagation(h, Xr, ws, bs, activations) ==
    forward_layers(h, ws, bs, activations, 1, Deref(h, Xr), EmptyCaches)

\* --------------------------------------------------- backward propagation
\* derivative_activation(Z, activation): an array of Z's shape, or the
\* Python int 1 for any other name
derivative_activation(Z, activation) ==
    IF activation = "sigmoid"
    THEN [ndarray |-> TRUE, shape |-> Z.shape, val |-> <<"sigmoid_derivative", Z.val>>]
    ELSE IF activation = "relu"
    THEN [ndarray |-> TRUE, shape |-> Z.shape, val |-> <<"relu_derivative", Z.val>>]
    ELSE IF activation = "tanh"
    THEN [ndarray |-> TRUE, shape |-> Z.shape, val |-> <<"tanh_derivative", Z.val>>]
    ELSE [ndarray |-> FALSE, shape |-> <<>>, val |-> <<"1">>]

NoGrad == [shape |-> <<>>, val |-> <<"none">>]

\* dZ = dA * g_derivative: a scalar keeps dA's shape, an array is broadcast
dZ_of(dA, g_derivative) ==
    IF ~g_derivative.ndarray
    THEN [err |-> NoErr, shape |-> dA.shape, val |-> <<"mul", dA.val, g_derivative.val>>]
    ELSE IF ~BcOk(dA.shape, g_derivative.shape)
    THEN [err |-> Raise("ValueError", "linear_backward")]
    ELSE [err |-> NoErr, shape |-> BcShape(dA.shape, g_derivative.shape),
          val |-> <<"mul", dA.val, g_derivative.val>>]

\* dW = np.dot(dZ, A_prev.T) * 1./m, or (np.dot(dZ, A_prev.T) + lambda_reg * W) * 1./m
dW_of(dZ, m, A_prev, W, lam) ==
    IF ~DotOk(dZ.shape, TShape(A_prev.shape))
    THEN [err |-> Raise("ValueError", "linear_backward")]
    ELSE LET d == [shape |-> DotShape(dZ.shape, TShape(A_prev.shape)),
                   val |-> <<"dot", dZ.val, <<"T", A_prev.val>>>>]
         IN  IF lam = None
             THEN [err |-> NoErr, shape |-> d.shape, val |-> <<"div", d.val, m>>]
             ELSE IF ~BcOk(d.shape, W.shape)
             THEN [err |-> Raise("ValueError", "linear_backward")]
             ELSE [err |-> NoErr, shape |-> BcShape(d.shape, W.shape),
                   val |-> <<"div", <<"add", d.val, <<"mul", <<"lambda", The(lam)>>, W.val>>>>, m>>]

\* linear_backward(dA, m, g_derivative, A_prev, W, b, lambda_reg): dZ, dW, db,
\* dA_prev in the order of the statements, then the three assertions
linear_backward(dA, m, g_derivative, A_prev, W, b, lam) ==
    LET dZ == dZ_of(dA, g_derivative)
        dW == dW_of(dZ, m, A_prev, W, lam)
        db == [shape |-> <<dZ.shape[1], 1>>, val |-> <<"div", <<"sum1", dZ.val>>, m>>]
        dA_prev == [shape |-> DotShape(TShape(W.shape), dZ.shape),
                    val |-> <<"dot", <<"T", W.val>>, dZ.val>>]
        fail(e) == [err |-> e, dA_prev |-> NoGrad, dW |-> NoGrad, db |-> NoGrad]
    IN  IF IsErr(dZ.err) THEN fail(dZ.err)
        ELSE IF IsErr(dW.err) THEN fail(dW.err)
        ELSE IF ~DotOk(TShape(W.shape), dZ.shape)
        THEN fail(Raise("ValueError", "linear_backward"))
        ELSE IF dA_prev.shape # A_prev.shape \/ dW.shape # W.shape \/ db.shape # b.shape
        THEN fail(Raise("AssertionError", "linear_backward"))
        ELSE [err |-> NoErr, dA_prev |-> dA_prev,
              dW |-> [shape |-> dW.shape, val |-> dW.val], db |-> db]

NoGradients == [err |-> NoErr, gradients_A_prev |-> <<>>, gradients_W |-> <<>>, gradients_b |-> <<>>]

\* the loop of model_backward_propagation at layer k = j + 1, from L down to 1
\* (the loop's i is L - k); g holds the three lists built so far.  Every iteration starts from
\* dA_prev = dA, the dA computed before the loop.
RECURSIVE backward_layers(_, _, _, _, _, _, _, _, _, _)
backward_layers(h, cs, activations, verb, lam, m, dA, L, k, g) ==
    IF k < 1 THEN g
    ELSE LET activation == IF L - k = 0 THEN activations.output ELSE activations.hidden
             Z == cs.Z[k]
             A_prev == cs.A_prev[k]
             W == Deref(h, cs.W[k])
             b == Deref(h, cs.b[k])
             dA_prev == dA
             g_derivative == derivative_activation(Z, activation)
             r == linear_backward(dA_prev, m, g_derivative, A_prev, W, b, lam)
         IN  IF verb /\ ~g_derivative.ndarray
             THEN [g EXCEPT !.err = Raise("AttributeError", "model_backward_propagation")]
             ELSE IF IsErr(r.err) THEN [g EXCEPT !.err = r.err]
             ELSE backward_layers(h, cs, activations, verb, lam, m, dA, L, k - 1,
                      [err |-> NoErr,
                       gradients_A_prev |-> <<r.dA_prev>> \o g.gradients_A_prev,
                       gradients_W |-> <<r.dW>> \o g.gradients_W,
                       gradients_b |-> <<r.db>> \o g.gradients_b])

\* the gradient lists built with append instead of insert(0, ...): they come
\* out in the order the layers were walked, last layer first
Reversed(seq) == [k \in 1..Len(seq) |-> seq[Len(seq) + 1 - k]]
model_backward_propagation_appended(h, Av, yv, ws, bs, cs, activations, verb, lam) ==
    IF Size(yv.shape) # Size(Av.shape)
    THEN [NoGradients EXCEPT !.err = Raise("ValueError", "model_backward_propagation")]
    ELSE LET L == Len(ws)
             y_r == [shape |-> Av.shape, val |-> yv.val]
             m == y_r.shape[1]
             dA == [shape |-> Av.shape, val |-> <<"dloss", y_r.val, <<"clip", Av.val>>>>]
             g == backward_layers(h, cs, activations, verb, lam, m, dA, L, L, NoGradients)
         IN  [err |-> g.err,
              gradients_A_prev |-> Reversed(g.gradients_A_prev),
              gradients_W |-> Reversed(g.gradients_W),
              gradients_b |-> Reversed(g.gradients_b)]

\* model_backward_propagation(A, y, weights, biases, caches,
\* activation_functions, verbose, lambda_reg): y.reshape(A.shape) needs as
\* many labels as A has entries; m = len(y) is then A's first dimension
model_backward_propagation(h, Av, yv, ws, bs, cs, activations, verb, lam) ==
    IF Size(yv.shape) # Size(Av.shape)
    THEN [NoGradients EXCEPT !.err = Raise("ValueError", "model_backward_propagation")]
    ELSE LET L == Len(ws)
             y_r == [shape |-> Av.shape, val |-> yv.val]
             m == y_r.shape[1]
             dA == [shape |-> Av.shape, val |-> <<"dloss", y_r.val, <<"clip", Av.val>>>>]
         IN  backward_layers(h, cs, activations, verb, lam, m, dA, L, L, NoGradients)

\* ------------------------------------------------------------------ cost
\* a 1-d shape seen as a row, for broadcasting against a 2-d shape
As2d(shape) == IF Len(shape) = 1 THEN <<1, shape[1]>> ELSE shape

\* the lambda_reg epoch_train passes to compute_cost_regularization, in hundredths
LambdaCost == 1

\* compute_cost(y, y_pred): what the call evaluates.  m = len(y); y_pred[0]
\* is the first row; the sum is divided by m.
compute_cost(yv, y_pred) ==
    IF y_pred.shape[1] = 0 THEN [err |-> Raise("IndexError", "compute_cost")]
    ELSE IF ~BcOk(As2d(yv.shape), <<1, y_pred.shape[2]>>)
    THEN [err |-> Raise("ValueError", "compute_cost")]
    ELSE [err |-> NoErr, fn |-> "compute_cost", m |-> yv.shape[1], lambda_reg |-> None]

\* compute_cost_regularization(y, y_pred, weights, lambda_reg): m = len(y);
\* the mean of the cross-entropy terms plus (lambda_reg / (2 * m)) * sum(W^2)
compute_cost_regularization(yv, y_pred, ws, lam) ==
    IF ~BcOk(As2d(yv.shape), y_pred.shape)
    THEN [err |-> Raise("ValueError", "compute_cost_regularization")]
    ELSE [err |-> NoErr, fn |-> "compute_cost_regularization", m |-> yv.shape[1],
          lambda_reg |-> lam]

NoCostCall == [err |-> NoErr, fn |-> "none", m |-> 0, lambda_reg |-> None]

\* ------------------------------------------------------ update_parameters
\* a -= learning_rate * g on the array at reference r: the same object, its
\* content replaced
isub(h, r, g) ==
    [h EXCEPT ![r] = [shape |-> h[r].shape,
                      val |-> <<"sub", h[r].val, <<"mul", <<"learning_rate">>, g.val>>>>,
                      ver |-> h[r].ver + 1]]

\* the loop of update_parameters from index k (1-based) on
RECURSIVE update_layers(_, _, _, _, _, _)
update_layers(h, ws, bs, gW, gb, k) ==
    IF k > Len(ws) THEN [err |-> NoErr, heap |-> h]
    ELSE IF k > Len(gW) \/ k > Len(gb)
    THEN [err |-> Raise("IndexError", "update_parameters"), heap |-> h]
    ELSE IF BcShape(h[ws[k]].shape, gW[k].shape) # h[ws[k]].shape
    THEN [err |-> Raise("ValueError", "update_parameters"), heap |-> h]
    ELSE IF BcShape(h[bs[k]].shape, gb[k].shape) # h[bs[k]].shape
    THEN [err |-> Raise("ValueError", "update_parameters"), heap |-> isub(h, ws[k], gW[k])]
    ELSE update_layers(isub(isub(h, ws[k], gW[k]), bs[k], gb[k]), ws, bs, gW, gb, k + 1)

\* an update that leaves the parameters as they were
update_parameters_noop(h, ws, bs, gW, gb) == [err |-> NoErr, heap |-> h]

\* an update whose loop starts at the second layer
update_parameters_from_second(h, ws, bs, gW, gb) == update_layers(h, ws, bs, gW, gb, 2)

\* update_parameters(weights, biases, gradients_W, gradients_b, learning_rate)
\* on the heap h: the lists it returns are the lists it was given
update_parameters(h, ws, bs, gW, gb) == update_layers(h, ws, bs, gW, gb, 1)

\* --------------------------------------------------------------- predict
\* the test with >= in place of >
Label_at_least(pr) == IF 2 * pr >= ProbUnit THEN 1 ELSE 0

\* the test of predict's loop on one probability pr (in units of 1/ProbUnit):
\* probs[0,i] > 0.5
Label(pr) == IF 2 * pr > ProbUnit THEN 1 ELSE 0

\* predict's loop over range(0, probs.shape[1]): q is p so far, k the index (1-based)
RECURSIVE predict_loop(_, _, _)
predict_loop(row, q, k) ==
    IF k > Len(row) THEN q
    ELSE predict_loop(row, [q EXCEPT ![k] = Label(row[k])], k + 1)

\* p = np.zeros((1, m))
zeros_row(m) == [k \in 1..m |-> 0]

\* ------------------------------------------------------------ the program
Costs == 1..MaxCost
Probs == 0..ProbUnit
Activations == ActivationNames \cup {"linear"}

\* the heap after init_params: X at reference 1, then W and b of each layer
XRef == 1
WRef(l) == 2 * l
BRef(l) == 2 * l + 1
Strip(a) == [shape |-> a.shape, val |-> a.val, ver |-> a.ver]
Alloc(h, ws, bs) ==
    [r \in 1..(1 + 2 * Len(ws)) |->
        IF r = XRef THEN h[XRef]
        ELSE IF r % 2 = 0 THEN Strip(ws[r \div 2]) ELSE Strip(bs[r \div 2])]

\* the values the references of a list name
Values(h, refs) == [k \in 1..Len(refs) |-> h[refs[k]]]

\* the loop stopping one iteration short
LoopPc_short(k) == IF k < num_iteration - 1 THEN "forward" ELSE "return"

\* for i in range(num_iteration): the next position of train_nn
LoopPc(k) == IF k < num_iteration THEN "forward" ELSE "return"

Fail(e) == pc' = "raised" /\ err' = e

\* train_nn up to its loop: init_params and the best-so-far trackers
TrainInit ==
    /\ pc = "train_nn"
    /\ LET r == init_params(layer_units)
       IN  IF IsErr(r.err)
           THEN Fail(r.err) /\ UNCHANGED <<heap, train_locals>>
           ELSE /\ heap' = Alloc(heap, r.weights, r.biases)
                /\ weights' = [l \in 1..Len(r.weights) |-> WRef(l)]
                /\ biases' = [l \in 1..Len(r.biases) |-> BRef(l)]
                /\ costs' = <<>>
                /\ best_cost' = CostUnit
                /\ best_weights' = None
                /\ best_biases' = None
                /\ best_iteration' = 0
                /\ i' = 0
                /\ pc' = LoopPc(0)
                /\ err' = err
    /\ UNCHANGED <<inputs, epoch_locals, best_parameters, predict_locals, history>>

\* the forward pass handing over to the backward pass, the cost left out
Forward_skips_cost ==
    /\ pc = "forward"
    /\ LET r == model_forward_propagation(heap, X, weights, biases, activation_functions)
       IN  /\ heap' = r.heap
           /\ IF IsErr(r.err)
              THEN Fail(r.err) /\ UNCHANGED <<A, caches>>
              ELSE A' = r.A /\ caches' = r.caches /\ pc' = "backward" /\ err' = err
    /\ UNCHANGED <<inputs, train_locals, cost, cost_call, gradients_A_prev, gradients_W,
                   gradients_b, best_parameters, predict_locals, history>>

\* epoch_train: the forward pass
Forward ==
    /\ pc = "forward"
    /\ LET r == model_forward_propagation(heap, X, weights, biases, activation_functions)
       IN  /\ heap' = r.heap
           /\ IF IsErr(r.err)
              THEN Fail(r.err) /\ UNCHANGED <<A, caches>>
              ELSE A' = r.A /\ caches' = r.caches /\ pc' = "cost" /\ err' = err
    /\ UNCHANGED <<inputs, train_locals, cost, cost_call, gradients_A_prev, gradients_W,
                   gradients_b, best_parameters, predict_locals, history>>

\* epoch_train: the cost, by compute_cost or by compute_cost_regularization
\* with lambda_reg = 0.01; its number is any cost
ComputeCost ==
    /\ pc = "cost"
    /\ LET r == IF lambda_reg = None
                THEN compute_cost(y, A)
                ELSE compute_cost_regularization(y, A, Values(heap, weights), Some(LambdaCost))
       IN  IF IsErr(r.err)
           THEN Fail(r.err) /\ UNCHANGED <<cost, cost_call>>
           ELSE /\ \E c \in Costs : cost' = c
                /\ cost_call' = r
                /\ pc' = "backward"
                /\ err' = err
    /\ UNCHANGED <<heap, inputs, train_locals, A, caches, gradients_A_prev, gradients_W,
                   gradients_b, best_parameters, predict_locals, history>>

\* epoch_train: the backward pass
Backward ==
    /\ pc = "backward"
    /\ LET r == model_backward_propagation(heap, A, y, weights, biases, caches,
                                           activation_functions, verbose, lambda_reg)
       IN  IF IsErr(r.err)
           THEN Fail(r.err) /\ UNCHANGED <<gradients_A_prev, gradients_W, gradients_b>>
           ELSE /\ gradients_A_prev' = r.gradients_A_prev
                /\ gradients_W' = r.gradients_W
                /\ gradients_b' = r.gradients_b
                /\ pc' = "update"
                /\ err' = err
    /\ UNCHANGED <<heap, inputs, train_locals, A, caches, cost, cost_call,
                   best_parameters, predict_locals, history>>

\* epoch_train: update_parameters, and the return to train_nn, which binds
\* weights and biases to the lists it passed
Update ==
    /\ pc = "update"
    /\ LET r == update_parameters(heap, weights, biases, gradients_W, gradients_b)
       IN  /\ heap' = r.heap
           /\ IF IsErr(r.err)
              THEN Fail(r.err) /\ UNCHANGED epoch_costs
              ELSE pc' = "track" /\ err' = err /\ epoch_costs' = Append(epoch_costs, cost)
    /\ UNCHANGED <<inputs, train_locals, epoch_locals, best_parameters, predict_locals, recorded>>

\* the test with the comparison turned around
is_better_reversed(best, c) == best < c

\* the test of train_nn's best tracking: best_cost > cost
is_better(best, c) == best > c

\* train_nn: the rest of the loop body after epoch_train
Track ==
    /\ pc = "track"
    /\ IF is_better(best_cost, cost)
       THEN /\ best_cost' = cost
            /\ best_iteration' = i + 1
            /\ best_weights' = Some(weights)
            /\ best_biases' = Some(biases)
            /\ recorded' = Some([weights |-> Values(heap, weights), biases |-> Values(heap, biases)])
       ELSE UNCHANGED <<best_cost, best_iteration, best_weights, best_biases, recorded>>
    /\ costs' = Append(costs, cost)
    /\ i' = i + 1
    /\ pc' = LoopPc(i + 1)
    /\ UNCHANGED <<err, heap, inputs, weights, biases, epoch_locals, best_parameters,
                   predict_locals, epoch_costs>>

\* train_nn: after the loop
Return ==
    /\ pc = "return"
    /\ best_parameters' = [weights |-> best_weights, biases |-> best_biases]
    /\ pc' = "returned"
    /\ UNCHANGED <<err, heap, inputs, train_locals, epoch_locals, predict_locals, history>>

\* predict(X, y, best_parameters, activation_functions); len(None) raises
\* TypeError in model_forward_propagation, probs[0, i] needs a first row
Predict ==
    /\ pc = "returned"
    /\ IF best_parameters.weights = None
       THEN Fail(Raise("TypeError", "model_forward_propagation"))
            /\ UNCHANGED <<heap, predict_locals>>
       ELSE LET m == heap[X].shape[2]
                r == model_forward_propagation(heap, X, The(best_parameters.weights),
                                               The(best_parameters.biases), activation_functions)
            IN  /\ heap' = r.heap
                /\ IF IsErr(r.err) THEN Fail(r.err) /\ UNCHANGED predict_locals
                   ELSE IF r.A.shape[1] = 0 /\ r.A.shape[2] > 0
                   THEN Fail(Raise("IndexError", "predict")) /\ UNCHANGED predict_locals
                   ELSE \E row \in [1..r.A.shape[2] -> Probs] :
                            /\ probs' = [shape |-> r.A.shape, val |-> r.A.val, row |-> row]
                            /\ p' = [shape |-> <<1, m>>, row |-> predict_loop(row, zeros_row(m), 1)]
                            /\ pc' = "predicted"
                            /\ err' = err
    /\ UNCHANGED <<inputs, train_locals, epoch_locals, best_parameters, history>>

\* ----------------------------------------------------------------- inputs
\* every list of at most MaxLen unit counts, valid as a LayerSpec or not
AllLayerUnits == UNION {[1..n -> MinUnits..MaxUnits] : n \in 0..MaxLen}
\* the LayerSpecs of the data model: two entries or more, all positive
LayerSpecs == {u \in AllLayerUnits : Len(u) >= 2 /\ \A k \in 1..Len(u) : u[k] >= 1}
\* the networks the training runs are explored on
TrainLayerUnits == {<<2, 1>>, <<2, 2, 1>>}
\* regularization strengths, in hundredths
Lambdas == {1, 5}
LambdaRegs == {None} \cup {Some(l) : l \in Lambdas}

NoArray == [shape |-> <<>>, val |-> <<"none">>]

\* the state at the call train_nn(X, y, layer_units, activation_functions,
\* learning_rate, num_iteration, verbose, lambda_reg), with X of
\* layer_units[0] features and m samples and y of m labels, 1-d or 2-d
Start(u, m, ydim, hid, out, verb, lam, N) ==
    /\ pc = "train_nn"
    /\ err = NoErr
    /\ layer_units = u
    /\ X = XRef
    /\ heap = <<[shape |-> <<IF Len(u) >= 1 /\ u[1] >= 0 THEN u[1] ELSE 1, m>>,
                 val |-> <<"X">>, ver |-> 0]>>
    /\ y = [shape |-> IF ydim = 1 THEN <<m>> ELSE <<1, m>>, val |-> <<"y">>]
    /\ activation_functions = [hidden |-> hid, output |-> out]
    /\ num_iteration = N
    /\ verbose = verb
    /\ lambda_reg = lam
    /\ weights = <<>> /\ biases = <<>> /\ costs = <<>>
    /\ best_cost = 0 /\ best_weights = None /\ best_biases = None
    /\ best_iteration = 0 /\ i = 0
    /\ A = NoArray /\ caches = EmptyCaches /\ cost = 0 /\ cost_call = NoCostCall
    /\ gradients_A_prev = <<>> /\ gradients_W = <<>> /\ gradients_b = <<>>
    /\ best_parameters = [weights |-> None, biases |-> None]
    /\ probs = [shape |-> <<>>, val |-> <<"none">>, row |-> <<>>]
    /\ p = [shape |-> <<>>, row |-> <<>>]
    /\ recorded = None
    /\ epoch_costs = <<>>

\* training runs followed by a prediction, as the notebook does: the
\* notebook's activations and a hidden name the dispatch does not know
Init ==
    \E u \in TrainLayerUnits, m \in 1..MaxBatch, ydim \in {1, 2}, hid \in {"tanh", "linear"},
       lam \in LambdaRegs, N \in 0..MaxIter :
        Start(u, m, ydim, hid, "sigmoid", FALSE, lam, N)

Next == TrainInit \/ Forward \/ ComputeCost \/ Backward \/ Update \/ Track \/ Return \/ Predict

Spec == Init /\ [][Next]_vars

\* one call of epoch_train on freshly initialized parameters, for every
\* LayerSpec, batch size, label shape, ActivationConfig, verbose and lambda_reg
InitEpoch ==
    \E u \in LayerSpecs, m \in 1..MaxBatch, ydim \in {1, 2}, hid \in Activations,
       out \in Activations, verb \in BOOLEAN, lam \in LambdaRegs :
        Start(u, m, ydim, hid, out, verb, lam, 1)

NextEpoch == TrainInit \/ Forward \/ ComputeCost \/ Backward \/ Update

SpecEpoch == InitEpoch /\ [][NextEpoch]_vars

\* init_params on every list of unit counts
InitLayers ==
    \E u \in AllLayerUnits, N \in 0..1 : Start(u, 1, 1, "tanh", "sigmoid", FALSE, None, N)

NextLayers == TrainInit

SpecLayers == InitLayers /\ [][NextLayers]_vars

\* ----------------------------------------------------------------- claims
Min(seq) == CHOOSE c \in {seq[k] : k \in 1..Len(seq)} : \A k \in 1..Len(seq) : c <= seq[k]
\* Python's seq[n]: a negative n counts from the end
PyIndex(seq, n) == IF n >= 0 THEN seq[n + 1] ELSE seq[Len(seq) + n + 1]
Trained == pc \in {"returned", "predicted"}
LastUnit == layer_units[Len(layer_units)]
Recognized(name) == name \in ActivationNames

\* C1: the best parameters are a snapshot decoupled from the live ones: once
\* recorded, the values the best weights and biases name are the values they
\* had when they were recorded, through every later update and at the return.
C1_BestSnapshotDecoupled ==
    best_weights # None =>
        /\ Values(heap, The(best_weights)) = The(recorded).weights
        /\ Values(heap, The(best_biases)) = The(recorded).biases

\* C2: for num_iteration >= 1, at the return best_cost is the minimum of the
\* returned loss history and the returned weights and biases are not absent.
C2_ReturnsLowestLossSnapshot ==
    (pc = "returned" /\ num_iteration >= 1) =>
        /\ best_cost = Min(costs)
        /\ best_parameters.weights # None
        /\ best_parameters.biases # None

\* C3: after every completed epoch, loss_history[best_iteration - 1] is
\* best_loss (read with Python's indexing).
C3_BestIterationIndexesBestLoss ==
    Len(costs) >= 1 => PyIndex(costs, best_iteration - 1) = best_cost

\* C4: best_cost never increases from one step of the training loop to the next.
C4_BestCostNonIncreasing == [][pc # "train_nn" => best_cost' <= best_cost]_vars

\* C4's case: a later epoch had a higher loss than the recorded best
C4_Witness ==
    /\ Len(costs) >= 2
    /\ best_cost = costs[1]
    /\ costs[2] > costs[1]

\* C5: the loop index never passes num_iteration, the loop ends only after
\* num_iteration epochs, and the loss history train_nn returns then holds,
\* in epoch order, the cost of each epoch run.
C5_RunsExactlyNEpochs ==
    /\ i <= num_iteration
    /\ pc \in {"forward", "cost", "backward", "update", "track"} => i < num_iteration
    /\ (pc = "return" \/ Trained) =>
          /\ i = num_iteration
          /\ Len(costs) = num_iteration
          /\ costs = epoch_costs

\* C5's case: the best epoch was the first, and every later epoch still ran
C5_Witness ==
    /\ pc = "returned"
    /\ num_iteration >= 2
    /\ best_iteration = 1
    /\ Len(costs) = num_iteration

\* C6: predict returns a (1, m) matrix whose entry is 1 exactly where the
\* probability is above one half, and 0 elsewhere.
C6_PredictThreshold ==
    pc = "predicted" =>
        /\ p.shape = <<1, heap[X].shape[2]>>
        /\ Len(p.row) = heap[X].shape[2]
        /\ Len(probs.row) = heap[X].shape[2]
        /\ \A k \in 1..Len(p.row) :
              /\ p.row[k] \in {0, 1}
              /\ p.row[k] = 1 <=> 2 * probs.row[k] > ProbUnit

\* C6's case: a probability of exactly one half beside one above it
C6_Witness ==
    /\ pc = "predicted"
    /\ \E j, k \in 1..Len(p.row) :
          /\ 2 * probs.row[j] = ProbUnit /\ p.row[j] = 0
          /\ 2 * probs.row[k] > ProbUnit /\ p.row[k] = 1

\* C7: the call of predict changes no array: not a weight, not a bias, not X,
\* and not the lists that name them.
C7_PredictReadOnly ==
    [][pc = "returned" => /\ heap' = heap
                          /\ best_parameters' = best_parameters
                          /\ X' = X]_vars

\* C7's case: predict has run on parameters that training has updated
C7_Witness ==
    /\ pc = "predicted"
    /\ best_parameters.weights # None
    /\ \E k \in 1..Len(weights) : heap[weights[k]].ver >= 1

\* the backward pass of the epoch is over, by completion or by an exception
BackwardOver ==
    \/ pc \in {"update", "track"}
    \/ pc = "raised" /\ err[2] \in {"linear_backward", "model_backward_propagation"}

\* C8: for a LayerSpec with one output unit the backward pass (verbose off)
\* produces, for every layer, dW of W's shape, db of b's shape and dA_prev of
\* A_prev's shape, and raises nothing.
C8_GradientShapeSymmetry ==
    (LastUnit = 1 /\ ~verbose /\ BackwardOver) =>
        /\ err = NoErr
        /\ Len(gradients_W) = Len(weights)
        /\ \A l \in 1..Len(weights) :
              /\ gradients_W[l].shape = heap[weights[l]].shape
              /\ gradients_b[l].shape = heap[biases[l]].shape
              /\ gradients_A_prev[l].shape = caches.A_prev[l].shape

\* C9: with a hidden or output activation name that is not sigmoid, tanh or
\* relu, the epoch raises nothing.
C9_UnknownActivationNoError ==
    (LastUnit = 1 /\ (~Recognized(activation_functions.hidden)
                      \/ ~Recognized(activation_functions.output))) =>
        pc # "raised"

\* C10: init_params never returns for a list of fewer than two unit counts
\* or with a unit count <= 0: it fails.
C10_InitParamsRejectsInvalid ==
    (/\ pc # "train_nn"
     /\ \/ Len(layer_units) < 2
        \/ \E k \in 1..Len(layer_units) : layer_units[k] <= 0) =>
        pc = "raised"

\* C11: for a list of L + 1 positive unit counts init_params returns L weight
\* matrices and L bias vectors in layer order, weight l of shape
\* (units[l], units[l-1]) and bias l of shape (units[l], 1), all zeros.
C11_InitParamsShapes ==
    (/\ pc # "train_nn"
     /\ Len(layer_units) >= 1
     /\ \A k \in 1..Len(layer_units) : layer_units[k] >= 1) =>
        /\ pc # "raised"
        /\ Len(weights) = Len(layer_units) - 1
        /\ Len(biases) = Len(layer_units) - 1
        /\ \A l \in 1..Len(weights) :
              /\ heap[weights[l]].shape = <<layer_units[l + 1], layer_units[l]>>
              /\ heap[biases[l]] = [shape |-> <<layer_units[l + 1], 1>>,
                                    val |-> <<"zeros">>, ver |-> 0]

\* C11's case: two layers of different widths have been initialized
C11_Witness ==
    /\ pc # "train_nn"
    /\ Len(layer_units) = 3
    /\ Len(weights) = 2
    /\ layer_units[1] # layer_units[2]
    /\ layer_units[2] # layer_units[3]

\* the backward pass of the epoch has returned its three gradient lists
BackwardDone == pc \in {"update", "track"}
\* the dA that entered layer l's dZ = dA * g_derivative, read off db of layer l
\* (db = np.sum(dZ, ...) * 1./m)
dA_used(l) == gradients_b[l].val[2][2][2]
\* the dA computed from the loss before the loop
dA_L == <<"dloss", y.val, <<"clip", A.val>>>>

\* C12: the error signal is chained: layer L uses the dA derived from the
\* loss, and every layer l < L uses the dA_prev returned by the backward step
\* of layer l + 1.
C12_ErrorSignalChained ==
    BackwardDone =>
        \A l \in 1..Len(weights) :
            dA_used(l) = IF l = Len(weights) THEN dA_L ELSE gradients_A_prev[l + 1].val

\* the batch size: the number of sample columns of X
BatchSize == heap[X].shape[2]

\* C13: the divisor m applied to dW and db of every layer is the batch size,
\* for 1-d labels and for (1, m) labels.
C13_GradientDivisorIsBatchSize ==
    BackwardDone =>
        \A l \in 1..Len(weights) :
            /\ gradients_W[l].val[3] = BatchSize
            /\ gradients_b[l].val[3] = BatchSize

\* the lambda of the term lambda_reg * W inside dW of layer l (regularized run)
LambdaInGradient(l) == gradients_W[l].val[2][3][2][2]

\* C14: with L2 regularization the loss penalty uses the lambda_reg the caller
\* passed, the same lambda as the gradient term lambda_reg * W of every layer.
C14_LossLambdaIsCallerLambda ==
    (lambda_reg # None /\ BackwardDone) =>
        /\ cost_call.fn = "compute_cost_regularization"
        /\ cost_call.lambda_reg = lambda_reg
        /\ \A l \in 1..Len(weights) : Some(LambdaInGradient(l)) = cost_call.lambda_reg

\* every layer's W and b have had exactly v in-place updates
ParamsAt(v) ==
    \A l \in 1..Len(weights) : heap[weights[l]].ver = v /\ heap[biases[l]].ver = v
\* the forward pass whose caches are held read W and b of every layer as they
\* were after v updates (Z = np.dot(W, A_prev) + b)
ForwardRead(v) ==
    /\ Len(caches.Z) = Len(weights)
    /\ \A l \in 1..Len(weights) :
          /\ caches.Z[l].val[2][2] = <<"ref", weights[l], v>>
          /\ caches.Z[l].val[3] = <<"ref", biases[l], v>>
\* the backward pass whose gradients are held read W of every layer as it was
\* after v updates (dA_prev = np.dot(W.T, dZ))
BackwardRead(v) ==
    /\ Len(gradients_A_prev) = Len(weights)
    /\ \A l \in 1..Len(weights) : gradients_A_prev[l].val[2][2] = <<"ref", weights[l], v>>
\* what each position of epoch i + 1 (i epochs completed) has to find
EpochState ==
    /\ pc = "forward" => ParamsAt(i)
    /\ pc \in {"cost", "backward"} => ParamsAt(i) /\ ForwardRead(i)
    /\ pc = "update" => ParamsAt(i) /\ ForwardRead(i) /\ BackwardRead(i)
    /\ pc = "track" => ParamsAt(i + 1) /\ ForwardRead(i) /\ BackwardRead(i)
\* the steps of an epoch follow one another in the one order
EpochOrder ==
    /\ pc = "forward" => pc' \in {"cost", "raised"}
    /\ pc = "cost" => pc' \in {"backward", "raised"}
    /\ pc = "backward" => pc' \in {"update", "raised"}
    /\ pc = "update" => pc' \in {"track", "raised"}
    /\ pc = "track" => pc' \in {"forward", "return"} /\ i' = i + 1

\* C15: an epoch is forward pass, loss, backward pass, update, best tracking
\* in that order; loss and gradients of an epoch come from the parameters as
\* they were before its update, and the next forward pass starts only when
\* every layer has been updated.
C15_EpochStepOrder == [][EpochOrder /\ EpochState']_vars

\* C15's case: the second epoch of a two-layer network is about to start
C15_Witness ==
    /\ pc = "forward"
    /\ i >= 1
    /\ Len(weights) >= 2
    /\ ParamsAt(i)

\* the forward pass of the epoch has returned A and the caches
ForwardDone == pc \in {"cost", "backward", "update", "track"}

\* C16: the forward pass leaves one cache entry (A_prev, W, b, Z) per layer in
\* layer order; A_prev of layer 1 is X and A_prev of layer l > 1 is the hidden
\* activation of layer l - 1's Z; the output activation is applied only to
\* the Z of layer L, giving A.
C16_ForwardLayerOrder ==
    ForwardDone =>
        /\ Len(caches.A_prev) = Len(weights)
        /\ Len(caches.W) = Len(weights)
        /\ Len(caches.b) = Len(weights)
        /\ Len(caches.Z) = Len(weights)
        /\ \A l \in 1..Len(weights) :
              /\ caches.W[l] = weights[l]
              /\ caches.b[l] = biases[l]
              /\ caches.A_prev[l] =
                     IF l = 1 THEN [shape |-> heap[X].shape, val |-> <<"ref", X, heap[X].ver>>]
                     ELSE activation_function(caches.Z[l - 1], activation_functions.hidden)
              /\ caches.Z[l].shape = <<layer_units[l + 1], BatchSize>>
              /\ caches.Z[l].val = <<"add", <<"dot", <<"ref", weights[l], i>>, caches.A_prev[l].val>>,
                                     <<"ref", biases[l], i>>>>
        /\ A = activation_function(caches.Z[Len(weights)], activation_functions.output)

\* C16's case: a forward pass over two layers with two different known activations
C16_Witness ==
    /\ ForwardDone
    /\ Len(weights) = 2
    /\ Recognized(activation_functions.hidden)
    /\ Recognized(activation_functions.output)
    /\ activation_functions.hidden # activation_functions.output

\* the np.dot(dZ, A_prev.T) inside dW of layer l, with or without the
\* regularization term added to it
DotInGradient(l) ==
    IF lambda_reg = None THEN gradients_W[l].val[2] ELSE gradients_W[l].val[2][2]
\* the g_derivative that entered layer l's dZ, read off db of layer l
g_derivative_used(l) == gradients_b[l].val[2][2][3]

\* C17: the gradient lists come back in forward layer order: entry l was
\* computed from layer l's cached Z, A_prev and W, with the derivative of the
\* output activation at layer L and of the hidden activation at every other
\* layer.
C17_BackwardLayerOrder ==
    BackwardDone =>
        /\ Len(gradients_W) = Len(weights)
        /\ Len(gradients_b) = Len(weights)
        /\ Len(gradients_A_prev) = Len(weights)
        /\ \A l \in 1..Len(weights) :
              /\ g_derivative_used(l) =
                     derivative_activation(caches.Z[l],
                         IF l = Len(weights) THEN activation_functions.output
                         ELSE activation_functions.hidden).val
              /\ DotInGradient(l)[3] = <<"T", caches.A_prev[l].val>>
              /\ DotInGradient(l)[2] = gradients_b[l].val[2][2]
              /\ gradients_A_prev[l].val[2] = <<"T", <<"ref", weights[l], i>>>>
              /\ gradients_A_prev[l].val[3] = gradients_b[l].val[2][2]

\* C17's case: a backward pass over two layers with two different known activations
C17_Witness ==
    /\ BackwardDone
    /\ Len(weights) = 2
    /\ Recognized(activation_functions.hidden)
    /\ Recognized(activation_functions.output)
    /\ activation_functions.hidden # activation_functions.output
    /\ layer_units[1] # layer_units[2]

\* the cost of the epoch has been computed
CostDone == pc \in {"backward", "update", "track"}

\* C18: the divisor m of the unregularized loss is the number of samples, for
\* 1-d labels and for (1, m) labels.
C18_CostDivisorIsBatchSize ==
    (lambda_reg = None /\ CostDone) =>
        /\ cost_call.fn = "compute_cost"
        /\ cost_call.m = BatchSize

\* the array a after a -= learning_rate * g
Stepped(a, g) ==
    [shape |-> a.shape,
     val |-> <<"sub", a.val, <<"mul", <<"learning_rate">>, g.val>>>>,
     ver |-> a.ver + 1]

\* C19: the update step replaces W and b of every layer, once, by
\* W - learning_rate * dW and b - learning_rate * db of that same layer, and
\* changes nothing else: not X, not the lists, not the gradients or caches.
C19_UpdateEveryLayerOnce ==
    [][pc = "update" =>
          /\ pc' = "track"
          /\ Len(heap') = Len(heap)
          /\ \A l \in 1..Len(weights) :
                /\ heap'[weights[l]] = Stepped(heap[weights[l]], gradients_W[l])
                /\ heap'[biases[l]] = Stepped(heap[biases[l]], gradients_b[l])
          /\ heap'[X] = heap[X]
          /\ UNCHANGED <<inputs, train_locals, epoch_locals, best_parameters, predict_locals>>]_vars

\* C19's case: the second update of a two-layer network has been applied
C19_Witness ==
    /\ pc = "track"
    /\ i >= 1
    /\ Len(weights) = 2
    /\ ParamsAt(i + 1)

\* C20: when epoch k = i + 1 is recorded as the best, best_cost is the loss
\* of epoch k, computed by a forward pass that read the parameters after
\* k - 1 updates, and the parameters recorded have had k updates, the last
\* one being the step along epoch k's gradients.
C20_BestCostOneStepBehind ==
    [][(pc = "track" /\ best_iteration' # best_iteration) =>
          /\ best_iteration' = i + 1
          /\ best_cost' = cost
          /\ cost = epoch_costs[i + 1]
          /\ ForwardRead(i)
          /\ recorded' # None
          /\ \A l \in 1..Len(weights) :
                /\ The(recorded').weights[l].ver = i + 1
                /\ The(recorded').biases[l].ver = i + 1
                /\ The(recorded').weights[l].val[3][3] = gradients_W[l].val
                /\ The(recorded').biases[l].val[3][3] = gradients_b[l].val]_vars

\* C20's case: the second epoch of a two-layer network was recorded as the best
C20_Witness ==
    /\ recorded # None
    /\ best_iteration = 2
    /\ Len(weights) = 2
    /\ The(recorded).weights[1].ver = 2

====
